---- MODULE Spec2Model ----
(***************************************************************************)
(* Lifestyle Coach: the sleep log (src/coach.py), the exercise log         *)
(* (src/exercise_planner.py), the record store helpers (src/processed.py), *)
(* the advice paths (src/coach.py, src/analyzer.py, src/app.py) and the    *)
(* sleep-issue table (src/sleep_database.py).                              *)
(*                                                                         *)
(* Numbers.  Every number of the program (hours, quality, durations, goal  *)
(* targets, averages, scores) is an integer count of thousandths: 7.25     *)
(* hours is 7250, quality 85 is 85000.  Inputs are multiples of 1/8, which *)
(* binary floating point holds exactly, so sums, differences and the       *)
(* half-to-even rounding of round() are the exact ones.  A quotient that   *)
(* is not a whole number of thousandths is kept as a fraction              *)
(* [num, den].                                                             *)
(*                                                                         *)
(* Time.  A timestamp is a whole number of days; the clock `now` is what   *)
(* datetime.now() returns.  Operations happen on day 0, a day later, a     *)
(* week after day 0, a day later, and so on: 0, 1, 7, 8, 14, ...           *)
(*                                                                         *)
(* Text.  A string that the code inspects (an activity type) is a sequence *)
(* of one-character strings; a string that the code only stores or tests   *)
(* against a table (notes, goal types, issue keys) is a TLA+ string.       *)
(***************************************************************************)
EXTENDS Integers, Sequences, FiniteSets, TLC

VARIABLES now, disk, coach, planner, api_key_valid, ret

vars == <<now, disk, coach, planner, api_key_valid, ret>>

(***************************************************************************)
(* Bounds of the model.                                                    *)
(***************************************************************************)
\* the clock stops advancing at MaxNow days
MaxNow == 8
\* a session stops logging when its list holds MaxLogs entries
MaxLogs == 3

\* timedelta(days=7)
WeekDays == 7

Sessions == {1, 2}

(***************************************************************************)
(* Arithmetic.                                                             *)
(***************************************************************************)
Abs(x) == IF x < 0 THEN -x ELSE x

Max0(x) == IF x > 0 THEN x ELSE 0

RECURSIVE SumSeq(_)
SumSeq(s) == IF s = <<>> THEN 0 ELSE Head(s) + SumSeq(Tail(s))

\* round(num/den, ndigits) where step is 10^(3 - ndigits) thousandths:
\* the nearest multiple of step, a tie going to the even multiple
Round(num, den, step) ==
    LET q == num \div (den * step)
        r == num - q * den * step
    IN  IF 2 * r < den * step THEN q * step
        ELSE IF 2 * r > den * step THEN (q + 1) * step
        ELSE IF q % 2 = 0 THEN q * step
        ELSE (q + 1) * step

\* int(num/den): truncation toward zero
IntOf(num, den) ==
    IF num >= 0 THEN (num \div (den * 1000)) * 1000
    ELSE -(((-num) \div (den * 1000)) * 1000)

\* a fraction of thousandths
Frac(n, d) == [num |-> n, den |-> d]

FracEq(a, b) == a.num * b.den = b.num * a.den

(***************************************************************************)
(* Documents and files.                                                    *)
(***************************************************************************)
EmptyMap == <<>>

\* a file of the store: absent, holding text that is not JSON, or holding
\* the JSON text of a document
Missing == [st |-> "missing"]

Malformed == [st |-> "malformed"]

\* json.dump and json.load: the documents hold strings, numbers, lists and
\* mappings only, which JSON text carries unchanged
JsonDump(doc) == [st |-> "valid", doc |-> doc]

JsonLoad(file) == file.doc

SleepDefault == [sleep_logs |-> <<>>, goals |-> EmptyMap]

\* _load_data with the default of the page's SleepDataManager, which has no goals
SleepLoadDataNoGoals(file) ==
    IF file.st = "valid" THEN JsonLoad(file) ELSE [sleep_logs |-> <<>>]

\* SleepCoach._load_data
SleepLoadData(file) ==
    IF file.st = "valid" THEN JsonLoad(file) ELSE SleepDefault

Put(f, k, v) == [x \in (DOMAIN f) \cup {k} |-> IF x = k THEN v ELSE f[x]]

Last(s) == s[Len(s)]

(***************************************************************************)
(* SleepLog: the weekly report and the goals.                              *)
(***************************************************************************)
RECURSIVE LastWeekIncl(_, _)
LastWeekIncl(logs, t) ==
    IF logs = <<>> THEN <<>>
    ELSE IF Head(logs).date >= t - WeekDays
         THEN <<Head(logs)>> \o LastWeekIncl(Tail(logs), t)
         ELSE LastWeekIncl(Tail(logs), t)

\* a report over every entry of the log, whatever its date
LastWeekAll(logs, t) == logs

\* df[df['date'] > now - 7 days], in list order
RECURSIVE LastWeek(_, _)
LastWeek(logs, t) ==
    IF logs = <<>> THEN <<>>
    ELSE IF Head(logs).date > t - WeekDays
         THEN <<Head(logs)>> \o LastWeek(Tail(logs), t)
         ELSE LastWeek(Tail(logs), t)

\* df['hours'].diff() without its leading NaN
Diff(h) == [i \in 1..(Len(h) - 1) |-> h[i + 1] - h[i]]

Hours(df) == [i \in 1..Len(df) |-> df[i].hours]

Quality(df) == [i \in 1..Len(df) |-> df[i].quality]

\* the score as the specification words it: the mean of the absolute
\* differences
CalculateConsistencyMeanAbs(df) ==
    IF Len(df) < 2 THEN Frac(0, 1)
    ELSE LET d == Diff(Hours(df))
             a == [i \in 1..Len(d) |-> Abs(d[i])]
         IN  Frac(Max0(100000 * Len(d) - 10 * SumSeq(a)), Len(d))

\* SleepCoach._calculate_consistency: abs() of the mean of the signed
\* differences
CalculateConsistency(df) ==
    IF Len(df) < 2 THEN Frac(0, 1)
    ELSE LET d == Diff(Hours(df))
             hour_diffs == Abs(SumSeq(d))
         IN  Frac(Max0(100000 * Len(d) - 10 * hour_diffs), Len(d))

\* SleepCoach.get_weekly_report on the document data at time t
WeeklyReport(data, t) ==
    LET last_week == LastWeek(data.sleep_logs, t)
    IN  IF data.sleep_logs = <<>> THEN EmptyMap
        ELSE IF last_week = <<>> THEN EmptyMap
        ELSE [avg_hours |-> Round(SumSeq(Hours(last_week)), Len(last_week), 100),
              avg_quality |-> IntOf(SumSeq(Quality(last_week)), Len(last_week)),
              consistency_score |-> CalculateConsistency(last_week)]

GoalActual(report, goal_type) ==
    IF goal_type = "hours" THEN report.avg_hours ELSE report.avg_quality

GoalResultStrict(actual, target) ==
    [status |-> IF actual - target > 0 THEN "met" ELSE "unmet",
     difference |-> Round(actual - target, 1, 100)]

GoalResult(actual, target) ==
    [status |-> IF actual - target >= 0 THEN "met" ELSE "unmet",
     difference |-> Round(actual - target, 1, 100)]

\* SleepCoach.check_goals on the document data at time t
CheckGoalsOf(data, t) ==
    LET report == WeeklyReport(data, t)
    IN  IF report = EmptyMap \/ data.goals = EmptyMap THEN EmptyMap
        ELSE [g \in {"hours", "quality"} \cap DOMAIN data.goals |->
                 GoalResult(GoalActual(report, g), data.goals[g])]

(***************************************************************************)
(* ExerciseLog: validation, the weekly summary and the intervals.          *)
(***************************************************************************)
Lowers == <<"a", "b", "c", "d", "e", "f", "g", "h", "i", "j", "k", "l", "m",
            "n", "o", "p", "q", "r", "s", "t", "u", "v", "w", "x", "y", "z">>

Uppers == <<"A", "B", "C", "D", "E", "F", "G", "H", "I", "J", "K", "L", "M",
            "N", "O", "P", "Q", "R", "S", "T", "U", "V", "W", "X", "Y", "Z">>

IsUpper(c) == \E i \in 1..Len(Uppers) : Uppers[i] = c

IsLower(c) == \E i \in 1..Len(Lowers) : Lowers[i] = c

IsCased(c) == IsUpper(c) \/ IsLower(c)

ToLower(c) ==
    IF IsUpper(c) THEN Lowers[CHOOSE i \in 1..Len(Uppers) : Uppers[i] = c] ELSE c

ToUpper(c) ==
    IF IsLower(c) THEN Uppers[CHOOSE i \in 1..Len(Lowers) : Lowers[i] = c] ELSE c

\* str.lower
Lower(str) == [i \in 1..Len(str) |-> ToLower(str[i])]

\* str.title: a cased character that follows a cased character is lowered,
\* any other is raised
Title(str) ==
    [i \in 1..Len(str) |->
        IF i > 1 /\ IsCased(str[i - 1]) THEN ToLower(str[i]) ELSE ToUpper(str[i])]

\* the list of log_exercise: ["cardio", "walking", "running", "fitness class", "other"]
ActivityTypes ==
    { <<"c", "a", "r", "d", "i", "o">>,
      <<"w", "a", "l", "k", "i", "n", "g">>,
      <<"r", "u", "n", "n", "i", "n", "g">>,
      <<"f", "i", "t", "n", "e", "s", "s", " ", "c", "l", "a", "s", "s">>,
      <<"o", "t", "h", "e", "r">> }

\* the test of log_exercise that raises ValueError
ValidActivity(activity_type) == Lower(activity_type) \in ActivityTypes

ExerciseDefault == [exercise_logs |-> <<>>]

\* ExercisePlanner._load_data
ExerciseLoadData(file) ==
    IF file.st = "valid" THEN JsonLoad(file) ELSE ExerciseDefault

\* the entry log_exercise builds
NewExerciseEntry(activity_type, duration_hours, notes, t) ==
    [date |-> t,
     activity_type |-> Title(activity_type),
     duration_hours |-> Round(duration_hours, 1, 10),
     notes |-> notes]

RECURSIVE ExLastWeekIncl(_, _)
ExLastWeekIncl(logs, t) ==
    IF logs = <<>> THEN <<>>
    ELSE IF Head(logs).date >= t - WeekDays
         THEN <<Head(logs)>> \o ExLastWeekIncl(Tail(logs), t)
         ELSE ExLastWeekIncl(Tail(logs), t)

\* df[df['date'] > now - 7 days], in list order
RECURSIVE ExLastWeek(_, _)
ExLastWeek(logs, t) ==
    IF logs = <<>> THEN <<>>
    ELSE IF Head(logs).date > t - WeekDays
         THEN <<Head(logs)>> \o ExLastWeek(Tail(logs), t)
         ELSE ExLastWeek(Tail(logs), t)

Durations(df) == [i \in 1..Len(df) |-> df[i].duration_hours]

\* the hours of each type that occurs, which is not what value_counts gives
ValueHours(df) ==
    [a \in {df[i].activity_type : i \in 1..Len(df)} |->
        SumSeq(Durations(SelectSeq(df, LAMBDA e : e.activity_type = a)))]

\* value_counts().to_dict(): the types that occur, each with its count
ValueCounts(df) ==
    [a \in {df[i].activity_type : i \in 1..Len(df)} |->
        Cardinality({i \in 1..Len(df) : df[i].activity_type = a})]

\* ExercisePlanner.get_weekly_summary on the document data at time t
WeeklySummary(data, t) ==
    LET last_week == ExLastWeek(data.exercise_logs, t)
    IN  IF data.exercise_logs = <<>> THEN EmptyMap
        ELSE IF last_week = <<>> THEN EmptyMap
        ELSE [total_hours |-> Round(SumSeq(Durations(last_week)), 1, 10),
              sessions |-> Len(last_week),
              activity_breakdown |-> ValueCounts(last_week)]

IntervalNames == {"0-2 hours", "2-4 hours", "4-6 hours", "6+ hours"}

\* the if/elif chain of get_exercise_intervals
IntervalOfExclusive(duration) ==
    IF duration < 2000 THEN "0-2 hours"
    ELSE IF duration < 4000 THEN "2-4 hours"
    ELSE IF duration < 6000 THEN "4-6 hours"
    ELSE "6+ hours"

IntervalOf(duration) ==
    IF duration <= 2000 THEN "0-2 hours"
    ELSE IF duration <= 4000 THEN "2-4 hours"
    ELSE IF duration <= 6000 THEN "4-6 hours"
    ELSE "6+ hours"

\* ExercisePlanner.get_exercise_intervals on the document data
ExerciseIntervals(data) ==
    LET logs == data.exercise_logs
    IN  IF logs = <<>> THEN EmptyMap
        ELSE [k \in IntervalNames |->
                 Cardinality({i \in 1..Len(logs) :
                                 IntervalOf(logs[i].duration_hours) = k})]

(***************************************************************************)
(* The record store: _save_data, load_user_data, save_user_data.           *)
(***************************************************************************)
\* how a write ends: "ok"; "fault_open" when mkdir or open() raises and the
\* file is left as it was; "fault_write" when json.dump raises after
\* open(path, 'w') has truncated the file, which leaves text that is not JSON
SaveOutcomes == {"ok", "fault_open", "fault_write"}

\* the file after _save_data / save_user_data wrote the document data
SaveData(file, data, outcome) ==
    IF outcome = "ok" THEN JsonDump(data)
    ELSE IF outcome = "fault_open" THEN file
    ELSE Malformed

\* load_user_data: the value it returns
LoadUserDataValue(file) ==
    IF file.st = "missing" THEN EmptyMap
    ELSE IF file.st = "valid" THEN JsonLoad(file)
    ELSE EmptyMap

(***************************************************************************)
(* Inputs.                                                                 *)
(***************************************************************************)
SleepInputs ==
    { [hours |-> 7000, quality |-> 85000, notes |-> ""],
      [hours |-> 8000, quality |-> 70000, notes |-> "late"],
      [hours |-> 4000, quality |-> 70000, notes |-> ""] }

GoalInputs ==
    { [goal_type |-> "hours", target |-> 8000],
      [goal_type |-> "quality", target |-> 80000],
      [goal_type |-> "bedtime", target |-> 23000] }

ExerciseInputs ==
    { [activity_type |-> <<"C", "a", "r", "d", "i", "o">>,
       duration_hours |-> 2000, notes |-> ""],
      [activity_type |-> <<"w", "a", "l", "k", "i", "n", "g">>,
       duration_hours |-> 0, notes |-> "rest"],
      [activity_type |-> <<"R", "U", "N", "N", "I", "N", "G">>,
       duration_hours |-> 6125, notes |-> ""],
      [activity_type |-> <<"f", "i", "t", "n", "e", "s", "s", " ", "c", "l", "a", "s", "s">>,
       duration_hours |-> 6000, notes |-> "yoga"],
      [activity_type |-> <<"O", "t", "h", "e", "r">>,
       duration_hours |-> 4000, notes |-> ""],
      [activity_type |-> <<"Y", "o", "g", "a">>,
       duration_hours |-> 1000, notes |-> ""],
      [activity_type |-> <<"F", "i", "t", "n", "e", "s", "s">>,
       duration_hours |-> 3000, notes |-> ""] }

\* the documents save_user_data is given
UserDocs ==
    { EmptyMap,
      [sleep_logs |-> <<>>],
      [goals |-> [hours |-> 8000]] }

Files == {"sleep", "exercise", "user"}

(***************************************************************************)
(* The state after construction: no file is stored yet, and each session   *)
(* has built its SleepCoach and its ExercisePlanner.                       *)
(***************************************************************************)
NoArgs == <<>>

\* what the last operation was given and what it gave back; `at` is the
\* clock value it read

Result(op, s, args, outcome, val) ==
    [op |-> op, sid |-> s, at |-> now, args |-> args, outcome |-> outcome, val |-> val]

Init ==
    /\ now = 0
    /\ disk = [f \in Files |-> Missing]
    /\ coach = [s \in Sessions |-> SleepLoadData(Missing)]
    /\ planner = [s \in Sessions |-> ExerciseLoadData(Missing)]
    /\ api_key_valid = FALSE
    /\ ret = [op |-> "init", sid |-> 0, at |-> 0, args |-> NoArgs,
              outcome |-> "ok", val |-> EmptyMap]

(***************************************************************************)
(* Operations.                                                             *)
(***************************************************************************)
\* time passes between two operations
Tick ==
    /\ now < MaxNow
    /\ now' = IF now % WeekDays = 0 THEN now + 1 ELSE now + WeekDays - 1
    /\ UNCHANGED <<disk, coach, planner, ret, api_key_valid>>

\* SleepCoach.__init__: the session builds its coach again from the store
ReloadCoach(s) ==
    /\ coach' = [coach EXCEPT ![s] = SleepLoadData(disk["sleep"])]
    /\ ret' = Result("load_sleep", s, NoArgs, "ok", SleepLoadData(disk["sleep"]))
    /\ UNCHANGED <<now, disk, planner, api_key_valid>>

\* log_sleep with the write moved above the append
LogSleepSaveFirst(s, in, outcome) ==
    LET new_entry == [date |-> now, hours |-> in.hours,
                      quality |-> in.quality, notes |-> in.notes]
        data == [coach[s] EXCEPT !.sleep_logs = Append(@, new_entry)]
    IN  /\ coach' = [coach EXCEPT ![s] = data]
        /\ disk' = [disk EXCEPT !["sleep"] = SaveData(@, coach[s], outcome)]
        /\ ret' = Result("log_sleep", s, in, IF outcome = "ok" THEN "ok" ELSE "raised", EmptyMap)
        /\ UNCHANGED <<now, planner, api_key_valid>>

\* log_sleep that reads the stored document again and writes the new entry
\* appended to it
LogSleepMerge(s, in, outcome) ==
    LET new_entry == [date |-> now, hours |-> in.hours,
                      quality |-> in.quality, notes |-> in.notes]
        data == [coach[s] EXCEPT !.sleep_logs = Append(@, new_entry)]
        merged == [SleepLoadData(disk["sleep"]) EXCEPT !.sleep_logs = Append(@, new_entry)]
    IN  /\ coach' = [coach EXCEPT ![s] = data]
        /\ disk' = [disk EXCEPT !["sleep"] = SaveData(@, merged, outcome)]
        /\ ret' = Result("log_sleep", s, in, IF outcome = "ok" THEN "ok" ELSE "raised", EmptyMap)
        /\ UNCHANGED <<now, planner, api_key_valid>>

\* SleepCoach.log_sleep: the append comes first, the write second
LogSleep(s, in, outcome) ==
    LET new_entry == [date |-> now, hours |-> in.hours,
                      quality |-> in.quality, notes |-> in.notes]
        data == [coach[s] EXCEPT !.sleep_logs = Append(@, new_entry)]
    IN  /\ coach' = [coach EXCEPT ![s] = data]
        /\ disk' = [disk EXCEPT !["sleep"] = SaveData(@, data, outcome)]
        /\ ret' = Result("log_sleep", s, in, IF outcome = "ok" THEN "ok" ELSE "raised", EmptyMap)
        /\ UNCHANGED <<now, planner, api_key_valid>>

\* SleepCoach.set_goal
SetGoal(s, in, outcome) ==
    LET data == [coach[s] EXCEPT !.goals = Put(@, in.goal_type, in.target)]
    IN  /\ coach' = [coach EXCEPT ![s] = data]
        /\ disk' = [disk EXCEPT !["sleep"] = SaveData(@, data, outcome)]
        /\ ret' = Result("set_goal", s, in, IF outcome = "ok" THEN "ok" ELSE "raised", EmptyMap)
        /\ UNCHANGED <<now, planner, api_key_valid>>

\* SleepCoach.get_weekly_report
GetWeeklyReport(s) ==
    /\ ret' = Result("get_weekly_report", s, NoArgs, "ok", WeeklyReport(coach[s], now))
    /\ UNCHANGED <<now, disk, coach, planner, api_key_valid>>

\* SleepCoach.check_goals
CheckGoals(s) ==
    /\ ret' = Result("check_goals", s, NoArgs, "ok", CheckGoalsOf(coach[s], now))
    /\ UNCHANGED <<now, disk, coach, planner, api_key_valid>>

\* ExercisePlanner.__init__
ReloadPlanner(s) ==
    /\ planner' = [planner EXCEPT ![s] = ExerciseLoadData(disk["exercise"])]
    /\ ret' = Result("load_exercise", s, NoArgs, "ok", ExerciseLoadData(disk["exercise"]))
    /\ UNCHANGED <<now, disk, coach, api_key_valid>>

\* log_exercise with the append moved above the validation
LogExerciseAppendFirst(s, in, outcome) ==
    LET new_entry == NewExerciseEntry(in.activity_type, in.duration_hours, in.notes, now)
        data == [planner[s] EXCEPT !.exercise_logs = Append(@, new_entry)]
    IN  /\ planner' = [planner EXCEPT ![s] = data]
        /\ IF ~ValidActivity(in.activity_type)
           THEN /\ ret' = Result("log_exercise", s, in, "ValueError", EmptyMap)
                /\ UNCHANGED disk
           ELSE /\ disk' = [disk EXCEPT !["exercise"] = SaveData(@, data, outcome)]
                /\ ret' = Result("log_exercise", s, in,
                                 IF outcome = "ok" THEN "ok" ELSE "raised", EmptyMap)
        /\ UNCHANGED <<now, coach, api_key_valid>>

\* ExercisePlanner.log_exercise
LogExercise(s, in, outcome) ==
    LET new_entry == NewExerciseEntry(in.activity_type, in.duration_hours, in.notes, now)
        data == [planner[s] EXCEPT !.exercise_logs = Append(@, new_entry)]
    IN  /\ IF ~ValidActivity(in.activity_type)
           THEN /\ ret' = Result("log_exercise", s, in, "ValueError", EmptyMap)
                /\ UNCHANGED <<disk, planner>>
           ELSE /\ planner' = [planner EXCEPT ![s] = data]
                /\ disk' = [disk EXCEPT !["exercise"] = SaveData(@, data, outcome)]
                /\ ret' = Result("log_exercise", s, in,
                                 IF outcome = "ok" THEN "ok" ELSE "raised", EmptyMap)
        /\ UNCHANGED <<now, coach, api_key_valid>>

\* ExercisePlanner.get_weekly_summary
GetWeeklySummary(s) ==
    /\ ret' = Result("get_weekly_summary", s, NoArgs, "ok", WeeklySummary(planner[s], now))
    /\ UNCHANGED <<now, disk, coach, planner, api_key_valid>>

\* ExercisePlanner.get_exercise_intervals
GetExerciseIntervals(s) ==
    /\ ret' = Result("get_exercise_intervals", s, NoArgs, "ok", ExerciseIntervals(planner[s]))
    /\ UNCHANGED <<now, disk, coach, planner, api_key_valid>>

\* load_user_data(filename): a missing file is first created holding {},
\* and that write can fault
LoadUserData(f, outcome) ==
    /\ IF disk[f].st = "missing"
       THEN /\ disk' = [disk EXCEPT ![f] = SaveData(@, EmptyMap, outcome)]
            /\ ret' = Result("load_user_data", 0, f,
                             IF outcome = "ok" THEN "ok" ELSE "raised",
                             IF outcome = "ok" THEN LoadUserDataValue(disk[f]) ELSE EmptyMap)
       ELSE /\ outcome = "ok"
            /\ disk' = disk
            /\ ret' = Result("load_user_data", 0, f, "ok", LoadUserDataValue(disk[f]))
    /\ UNCHANGED <<now, coach, planner, api_key_valid>>

\* save_user_data(filename, data)
SaveUserData(f, data, outcome) ==
    /\ disk' = [disk EXCEPT ![f] = SaveData(@, data, outcome)]
    /\ ret' = Result("save_user_data", 0, f, IF outcome = "ok" THEN "ok" ELSE "raised", EmptyMap)
    /\ UNCHANGED <<now, coach, planner, api_key_valid>>

(***************************************************************************)
(* Advice: the sleep-issue table, the prompts and the three places that    *)
(* call the text-generation service.  A text is the sequence of its parts. *)
(***************************************************************************)
SLEEP_ISSUES ==
    [difficulty_falling_asleep |->
        [description |-> "Difficulty falling asleep is often caused by stress, late-night screen use, caffeine consumption, or inconsistent sleep routines.",
         recommendations |->
            <<"Establish a consistent bedtime and wake-up time, even on weekends.",
              "Limit screen use at least 1 hour before bed (blue light affects melatonin production).",
              "Avoid caffeine after 2 PM.",
              "Create a relaxing pre-sleep routine, such as reading or meditation.">>],
     frequent_night_wakings |->
        [description |-> "Waking up frequently during the night can be linked to anxiety, noise disruptions, sleep apnea, or consuming heavy meals before bedtime.",
         recommendations |->
            <<"Keep your bedroom cool, dark, and quiet.",
              "Avoid heavy meals and alcohol within 3 hours of bedtime.",
              "Consider white noise machines or earplugs if environmental noise is an issue.",
              "If persistent, consult a sleep specialist for possible underlying disorders.">>],
     poor_sleep_quality |->
        [description |-> "Poor sleep quality means not feeling rested even after sleeping enough hours. It may be linked to stress, poor sleep hygiene, or hidden medical conditions.",
         recommendations |->
            <<"Prioritize deep sleep by sticking to a regular sleep schedule.",
              "Avoid stimulating activities close to bedtime.",
              "Limit naps during the day to no more than 30 minutes.",
              "Ensure your mattress and pillows are supportive and comfortable.">>],
     sleeping_too_late |->
        [description |-> "Sleeping very late (delayed sleep phase) can affect morning alertness, productivity, and mental health.",
         recommendations |->
            <<"Shift your bedtime earlier by 15-minute increments over several nights.",
              "Expose yourself to bright natural light early in the morning.",
              "Avoid exposure to bright lights and screens at night.",
              "Consider melatonin supplements under a doctor's supervision.">>]]

\* a lookup that falls back on the default issue of get_ai_coaching
GetSleepIssueInfoDefault(issue_key) ==
    IF issue_key \in DOMAIN SLEEP_ISSUES THEN SLEEP_ISSUES[issue_key]
    ELSE SLEEP_ISSUES["poor_sleep_quality"]

\* get_sleep_issue_info: SLEEP_ISSUES.get(issue_key, {})
GetSleepIssueInfo(issue_key) ==
    IF issue_key \in DOMAIN SLEEP_ISSUES THEN SLEEP_ISSUES[issue_key] ELSE EmptyMap

\* self.data["sleep_logs"][-3:]
LastEntries(logs, n) ==
    IF Len(logs) <= n THEN logs ELSE SubSeq(logs, Len(logs) - n + 1, Len(logs))

\* one line of the context block: date, hours, quality
ContextLines(logs) ==
    [i \in 1..Len(logs) |->
        [date |-> logs[i].date, hours |-> logs[i].hours, quality |-> logs[i].quality]]

NoAdviceMarker == "No specific structured advice available."

StructuredAdvice(issue_info) ==
    IF issue_info = EmptyMap THEN <<NoAdviceMarker>>
    ELSE <<"Problem: ", issue_info.description, "Recommended actions:">>
         \o [i \in 1..Len(issue_info.recommendations) |-> issue_info.recommendations[i]]

\* the full_prompt of get_ai_coaching
FullPrompt(data, prompt, sleep_issue) ==
    [role |-> "You are a professional sleep coach.",
     context |-> ContextLines(LastEntries(data.sleep_logs, 3)),
     advice |-> StructuredAdvice(GetSleepIssueInfo(sleep_issue)),
     question |-> prompt]

\* what chat.completions.create does: it answers, or it raises
LlmOutcomes == {"ok", "auth", "network", "quota", "timeout"}

\* try: return the answer; except Exception as e: return the warning
SoftFail(llm, request, warning) ==
    IF llm = "ok"
    THEN [outcome |-> "ok", val |-> [kind |-> "text", request |-> request]]
    ELSE [outcome |-> "ok",
          val |-> [kind |-> "warning", text |-> warning, error |-> llm, request |-> request]]

\* the call with no try around it
NoCatch(llm, request) ==
    IF llm = "ok"
    THEN [outcome |-> "ok", val |-> [kind |-> "text", request |-> request]]
    ELSE [outcome |-> "raised", val |-> [kind |-> "fault", error |-> llm, request |-> request]]

IssueInputs ==
    {"difficulty_falling_asleep", "frequent_night_wakings", "poor_sleep_quality",
     "sleeping_too_late", "snoring"}

QuestionInputs == {"Why do I feel tired even though I sleep 7 hours?"}

\* data/knowledge_base.json as LifestyleAnalyzer._load_knowledge_base reads it
KnowledgeBases ==
    { [sleep |-> <<"sleep fact">>, exercise |-> <<"exercise fact">>],
      [sleep |-> <<"sleep fact">>],
      EmptyMap }

KbGet(kb, k) == IF k \in DOMAIN kb THEN kb[k] ELSE <<>>

\* SleepCoach.get_ai_coaching
GetAiCoaching(s, prompt, sleep_issue, llm) ==
    LET r == SoftFail(llm, FullPrompt(coach[s], prompt, sleep_issue), "Coaching unavailable: ")
    IN  /\ ret' = Result("get_ai_coaching", s, <<prompt, sleep_issue>>, r.outcome, r.val)
        /\ UNCHANGED <<now, disk, coach, planner, api_key_valid>>

\* LifestyleAnalyzer.generate_ai_advice
GenerateAiAdvice(kb, user_context, llm) ==
    LET request == [role |-> "You are a professional health coach. Base your advice on scientific facts.",
                    context |-> user_context,
                    facts |-> KbGet(kb, "sleep") \o KbGet(kb, "exercise")]
        r == SoftFail(llm, request, "AI advice unavailable: ")
    IN  /\ ret' = Result("generate_ai_advice", 0, <<user_context>>, r.outcome, r.val)
        /\ UNCHANGED <<now, disk, coach, planner, api_key_valid>>

\* initialize_chatbot behind the "Connect to AI" button: client.models.list()
\* answers or raises, and the exception is shown with st.error
ConnectAI(llm) ==
    /\ api_key_valid' = (llm = "ok")
    /\ ret' = Result("initialize_chatbot", 0, NoArgs, "ok",
                     IF llm = "ok" THEN [kind |-> "text"]
                     ELSE [kind |-> "warning", text |-> "API Error: ", error |-> llm])
    /\ UNCHANGED <<now, disk, coach, planner>>

\* main(), the "AI Coach" tab with a question and the "Get Advice" button.
\* The request carries the planner's weekly summary (and the last entries of
\* the page's own SleepDataManager, which are no part of this model).
AppGetAdvice(s, question, llm) ==
    LET request == [exercise |-> WeeklySummary(planner[s], now), question |-> question]
        r == NoCatch(llm, request)
    IN  /\ IF ~api_key_valid
           THEN ret' = Result("app_get_advice", s, <<question>>, "ok",
                              [kind |-> "warning",
                               text |-> "Please enter a valid API key in the sidebar"])
           ELSE ret' = Result("app_get_advice", s, <<question>>, r.outcome, r.val)
        /\ UNCHANGED <<now, disk, coach, planner, api_key_valid>>

AdviceOps == {"get_ai_coaching", "generate_ai_advice", "app_get_advice"}

(***************************************************************************)
(* Specifications.  Every specification starts from Init; a list stops     *)
(* growing at the bound of the specification.                              *)
(***************************************************************************)
SleepRoom(s, max) == Len(coach[s].sleep_logs) < max

ExerciseRoom(s, max) == Len(planner[s].exercise_logs) < max

\* the whole program
Next ==
    \/ Tick
    \/ \E s \in Sessions :
          \/ ReloadCoach(s)
          \/ \E in \in SleepInputs, o \in SaveOutcomes :
                SleepRoom(s, MaxLogs) /\ LogSleep(s, in, o)
          \/ \E in \in GoalInputs, o \in SaveOutcomes : SetGoal(s, in, o)
          \/ GetWeeklyReport(s)
          \/ CheckGoals(s)
          \/ ReloadPlanner(s)
          \/ \E in \in ExerciseInputs, o \in SaveOutcomes :
                ExerciseRoom(s, MaxLogs) /\ LogExercise(s, in, o)
          \/ GetWeeklySummary(s)
          \/ GetExerciseIntervals(s)
          \/ \E q \in QuestionInputs, k \in IssueInputs, l \in LlmOutcomes :
                GetAiCoaching(s, q, k, l)
          \/ \E q \in QuestionInputs, l \in LlmOutcomes : AppGetAdvice(s, q, l)
    \/ \E kb \in KnowledgeBases, q \in QuestionInputs, l \in LlmOutcomes :
          GenerateAiAdvice(kb, q, l)
    \/ \E l \in LlmOutcomes : ConnectAI(l)
    \/ \E f \in Files, o \in SaveOutcomes : LoadUserData(f, o)
    \/ \E f \in Files, d \in UserDocs, o \in SaveOutcomes : SaveUserData(f, d, o)

Spec == Init /\ [][Next]_vars

\* the sleep log of one session: logging, goals, the weekly report
NextSleep ==
    \/ Tick
    \/ \E in \in SleepInputs : SleepRoom(1, MaxLogs) /\ LogSleep(1, in, "ok")
    \/ \E in \in GoalInputs : SetGoal(1, in, "ok")
    \/ GetWeeklyReport(1)
    \/ CheckGoals(1)

SpecSleep == Init /\ [][NextSleep]_vars

\* the exercise log of one session
NextExercise ==
    \/ Tick
    \/ \E in \in ExerciseInputs : ExerciseRoom(1, MaxLogs) /\ LogExercise(1, in, "ok")
    \/ GetWeeklySummary(1)
    \/ GetExerciseIntervals(1)

SpecExercise == Init /\ [][NextExercise]_vars

\* both logs of one session against the clock: only the dates matter
WeeklySleepInputs == {in \in SleepInputs : in.hours = 7000}

WeeklyExerciseInputs == {in \in ExerciseInputs : in.duration_hours = 2000}

NextWeekly ==
    \/ Tick
    \/ \E in \in WeeklySleepInputs : SleepRoom(1, MaxLogs) /\ LogSleep(1, in, "ok")
    \/ \E in \in WeeklyExerciseInputs :
          ExerciseRoom(1, MaxLogs) /\ LogExercise(1, in, "ok")
    \/ GetWeeklyReport(1)
    \/ GetWeeklySummary(1)

SpecWeekly == Init /\ [][NextWeekly]_vars

\* writes that can fault, and the session built again from the store
MaxStoreLogs == 2

StoreSleepInputs == {in \in SleepInputs : in.hours >= 7000}

StoreExerciseInputs == {in \in ExerciseInputs : in.duration_hours \in {1000, 6125, 6000}}

NextStore ==
    \/ \E in \in StoreSleepInputs, o \in SaveOutcomes :
          SleepRoom(1, MaxStoreLogs) /\ LogSleep(1, in, o)
    \/ \E in \in StoreExerciseInputs, o \in SaveOutcomes :
          ExerciseRoom(1, MaxStoreLogs) /\ LogExercise(1, in, o)
    \/ ReloadCoach(1)
    \/ ReloadPlanner(1)

SpecStore == Init /\ [][NextStore]_vars

\* the three loaders over every state a file of the store can be in
LoadSleepInputs == {in \in SleepInputs : in.hours = 8000}

LoadExerciseInputs == {in \in ExerciseInputs : in.duration_hours = 6000}

NextLoad ==
    \/ \E in \in LoadSleepInputs, o \in SaveOutcomes :
          SleepRoom(1, MaxStoreLogs) /\ LogSleep(1, in, o)
    \/ \E in \in LoadExerciseInputs, o \in SaveOutcomes :
          ExerciseRoom(1, MaxStoreLogs) /\ LogExercise(1, in, o)
    \/ ReloadCoach(1)
    \/ ReloadPlanner(1)
    \/ \E o \in SaveOutcomes : LoadUserData("user", o)
    \/ \E d \in UserDocs, o \in SaveOutcomes : SaveUserData("user", d, o)

SpecLoad == Init /\ [][NextLoad]_vars

\* the advice paths over a growing sleep log
NextAdvice ==
    \/ \E in \in SleepInputs : SleepRoom(1, MaxLogs) /\ LogSleep(1, in, "ok")
    \/ \E l \in LlmOutcomes : ConnectAI(l)
    \/ \E q \in QuestionInputs, k \in IssueInputs, l \in LlmOutcomes :
          GetAiCoaching(1, q, k, l)
    \/ \E kb \in KnowledgeBases, q \in QuestionInputs, l \in LlmOutcomes :
          GenerateAiAdvice(kb, q, l)
    \/ \E q \in QuestionInputs, l \in LlmOutcomes : AppGetAdvice(1, q, l)

SpecAdvice == Init /\ [][NextAdvice]_vars

\* both logs of one session against the clock, with nights that differ
WindowSleepInputs == {in \in SleepInputs : in.hours >= 7000}

NextWindow ==
    \/ Tick
    \/ \E in \in WindowSleepInputs : SleepRoom(1, MaxLogs) /\ LogSleep(1, in, "ok")
    \/ \E in \in WeeklyExerciseInputs :
          ExerciseRoom(1, MaxLogs) /\ LogExercise(1, in, "ok")
    \/ GetWeeklyReport(1)
    \/ GetWeeklySummary(1)

SpecWindow == Init /\ [][NextWindow]_vars

\* one session whose writes can fault, goals included, against the clock
FaultGoalInputs == {in \in GoalInputs : in.goal_type = "hours"}

NextFaults ==
    \/ Tick
    \/ \E in \in LoadSleepInputs, o \in SaveOutcomes :
          SleepRoom(1, MaxStoreLogs) /\ LogSleep(1, in, o)
    \/ \E in \in FaultGoalInputs, o \in SaveOutcomes : SetGoal(1, in, o)
    \/ \E in \in LoadExerciseInputs, o \in SaveOutcomes :
          ExerciseRoom(1, MaxStoreLogs) /\ LogExercise(1, in, o)
    \/ ReloadCoach(1)
    \/ ReloadPlanner(1)

SpecFaults == Init /\ [][NextFaults]_vars

\* two sessions of the one user "default" over the same two files, within
\* one day
NextSessions ==
    \E s \in Sessions :
        \/ \E in \in LoadSleepInputs : SleepRoom(s, MaxStoreLogs) /\ LogSleep(s, in, "ok")
        \/ \E in \in FaultGoalInputs : SetGoal(s, in, "ok")
        \/ \E in \in LoadExerciseInputs :
              ExerciseRoom(s, MaxStoreLogs) /\ LogExercise(s, in, "ok")
        \/ ReloadCoach(s)
        \/ ReloadPlanner(s)

SpecSessions == Init /\ [][NextSessions]_vars

(***************************************************************************)
(* Properties.                                                             *)
(***************************************************************************)
\* the five activity names as the documentation writes them
TitleNames ==
    { <<"C", "a", "r", "d", "i", "o">>,
      <<"W", "a", "l", "k", "i", "n", "g">>,
      <<"R", "u", "n", "n", "i", "n", "g">>,
      <<"F", "i", "t", "n", "e", "s", "s", " ", "C", "l", "a", "s", "s">>,
      <<"O", "t", "h", "e", "r">> }

\* an activity type that is, case-insensitively, one of the five names
IsListed(activity_type) == \E t \in TitleNames : Lower(t) = Lower(activity_type)

\* y is x rounded to a multiple of step
IsRounded(y, x, step) == y % step = 0 /\ 2 * Abs(y - x) <= step

\* C1: a log_sleep / log_exercise call that succeeds, followed by a reload
\* of the document from the store, gives a document with exactly one entry
\* more than the session's document had before the call, and its last entry
\* is the input: hours, quality and notes for sleep; the activity type in
\* title case, the duration rounded to 2 decimals and the notes for
\* exercise.
C1_LogThenReload ==
    [][LET s == ret'.sid
           in == ret'.args
       IN  /\ (ret'.op = "log_sleep" /\ ret'.outcome = "ok" /\ LogSleep(s, in, "ok")) =>
                 LET d == SleepLoadData(disk'["sleep"])
                 IN  /\ Len(d.sleep_logs) = Len(coach[s].sleep_logs) + 1
                     /\ Last(d.sleep_logs).hours = in.hours
                     /\ Last(d.sleep_logs).quality = in.quality
                     /\ Last(d.sleep_logs).notes = in.notes
                     /\ Last(d.sleep_logs).date = now
           /\ (ret'.op = "log_exercise" /\ LogExercise(s, in, "ok")
                  /\ IsListed(in.activity_type)) =>
                 LET d == ExerciseLoadData(disk'["exercise"])
                     e == Last(d.exercise_logs)
                 IN  /\ ret'.outcome = "ok"
                     /\ Len(d.exercise_logs) = Len(planner[s].exercise_logs) + 1
                     /\ e.activity_type \in TitleNames
                     /\ Lower(e.activity_type) = Lower(in.activity_type)
                     /\ IsRounded(e.duration_hours, in.duration_hours, 10)
                     /\ e.notes = in.notes
                     /\ e.date = now
      ]_vars

\* C1 witness: "RUNNING" for 6.125 hours was logged after an earlier entry
\* and is stored as "Running" for 6.12 hours, beside a stored sleep log
C1_Witness ==
    /\ ret.op = "log_exercise" /\ ret.outcome = "ok"
    /\ ret.args.duration_hours = 6125
    /\ disk["exercise"].st = "valid"
    /\ Len(disk["exercise"].doc.exercise_logs) = 2
    /\ Last(disk["exercise"].doc.exercise_logs).activity_type
          = <<"R", "u", "n", "n", "i", "n", "g">>
    /\ Last(disk["exercise"].doc.exercise_logs).duration_hours = 6120
    /\ disk["sleep"].st = "valid"
    /\ Len(disk["sleep"].doc.sleep_logs) = 2

\* C2: log_exercise with an activity type that is not, case-insensitively,
\* one of the five names ends in the invalid-argument error and changes
\* neither the session's document nor the stored one.
C2_InvalidRejected ==
    [][LET s == ret'.sid
           in == ret'.args
       IN  (/\ ret'.op = "log_exercise"
            /\ \E o \in SaveOutcomes : LogExercise(s, in, o)
            /\ ~IsListed(in.activity_type)) =>
              /\ ret'.outcome = "ValueError"
              /\ planner' = planner
              /\ disk' = disk
      ]_vars

\* C2 witness: "Yoga" was rejected while an entry is held and stored
C2_Witness ==
    /\ ret.op = "log_exercise" /\ ret.outcome = "ValueError"
    /\ ret.args.activity_type = <<"Y", "o", "g", "a">>
    /\ Len(planner[1].exercise_logs) = 1
    /\ disk["exercise"].st = "valid"
    /\ disk["exercise"].doc = planner[1]

\* the default document as the specification writes it: an empty entry list
\* and an empty goals mapping (the exercise document never has goals)
IsEmptyDefault(doc, keys) ==
    /\ keys \subseteq DOMAIN doc
    /\ \A k \in keys : doc[k] = <<>>
    /\ \E k \in {"sleep_logs", "exercise_logs"} : k \in DOMAIN doc

LoadContract(file, r, keys) ==
    /\ r.outcome = "ok"
    /\ IF file.st = "valid" THEN r.val = file.doc ELSE IsEmptyDefault(r.val, keys)

\* C7 as stated: loading never fails; a missing or invalid file loads as the
\* empty default document (an empty entry list and an empty goals mapping),
\* any other file as the document it holds.
C7_LoadNeverFails ==
    [][/\ (ret'.op = "load_sleep" /\ ReloadCoach(ret'.sid)) =>
             LoadContract(disk["sleep"], ret', {"sleep_logs", "goals"})
       /\ (ret'.op = "load_exercise" /\ ReloadPlanner(ret'.sid)) =>
             LoadContract(disk["exercise"], ret', {"exercise_logs"})
       /\ (ret'.op = "load_user_data"
              /\ \E o \in SaveOutcomes : LoadUserData(ret'.args, o)) =>
             LoadContract(disk[ret'.args], ret', {"goals"})
      ]_vars

\* C7 amended: SleepCoach._load_data and ExercisePlanner._load_data never
\* fail on a file that is missing or is not JSON: they return their own
\* default, {sleep_logs: [], goals: {}} for sleep and {exercise_logs: []},
\* with no goals mapping, for exercise; any other file loads as the document
\* it holds.  load_user_data returns the empty mapping {} for a file that is
\* missing or is not JSON; it first creates the missing file holding {}, and
\* a fault of that write is raised to the caller.
C7_LoadDefaults ==
    [][/\ (ret'.op = "load_sleep" /\ ReloadCoach(ret'.sid)) =>
             /\ ret'.outcome = "ok"
             /\ coach'[ret'.sid] = ret'.val
             /\ IF disk["sleep"].st = "valid"
                THEN ret'.val = disk["sleep"].doc
                ELSE /\ DOMAIN ret'.val = {"sleep_logs", "goals"}
                     /\ ret'.val.sleep_logs = <<>>
                     /\ ret'.val.goals = EmptyMap
       /\ (ret'.op = "load_exercise" /\ ReloadPlanner(ret'.sid)) =>
             /\ ret'.outcome = "ok"
             /\ planner'[ret'.sid] = ret'.val
             /\ IF disk["exercise"].st = "valid"
                THEN ret'.val = disk["exercise"].doc
                ELSE /\ DOMAIN ret'.val = {"exercise_logs"}
                     /\ ret'.val.exercise_logs = <<>>
       /\ (ret'.op = "load_user_data"
              /\ \E o \in SaveOutcomes : LoadUserData(ret'.args, o)) =>
             LET f == ret'.args
             IN  /\ disk[f].st = "valid" =>
                       ret'.outcome = "ok" /\ ret'.val = disk[f].doc /\ disk' = disk
                 /\ disk[f].st = "malformed" =>
                       ret'.outcome = "ok" /\ ret'.val = EmptyMap /\ disk' = disk
                 /\ disk[f].st = "missing" =>
                       IF ret'.outcome = "ok"
                       THEN ret'.val = EmptyMap /\ disk'[f] = JsonDump(EmptyMap)
                       ELSE disk'[f].st # "valid"
      ]_vars

\* C7 witness: the sleep file holds text that is not JSON, left by a write
\* that faulted after a stored entry, and the coach was built from it
C7_Witness ==
    /\ ret.op = "load_sleep"
    /\ disk["sleep"].st = "malformed"
    /\ ret.val = [sleep_logs |-> <<>>, goals |-> EmptyMap]
    /\ coach[1] = ret.val
    /\ disk["user"].st = "valid"

\* the entries of the trailing 7-day window at time t, in list order
WindowOf(logs, t) == SelectSeq(logs, LAMBDA e : t - e.date < 7)

\* C3: over a window of n >= 2 entries the consistency score of the weekly
\* report is max(0, 100 - 10 * M), M the mean of the absolute differences
\* of consecutive hours; with fewer than 2 entries it is 0.
C3_ConsistencyMeanAbs ==
    (ret.op = "get_weekly_report" /\ ret.val # EmptyMap) =>
       LET w == WindowOf(coach[ret.sid].sleep_logs, ret.at)
       IN  FracEq(ret.val.consistency_score, CalculateConsistencyMeanAbs(w))

\* C4: check_goals gives, for each of hours and quality that has a goal, the
\* weekly average minus the target rounded to 1 decimal, with status "met"
\* exactly when the average is not below the target; other goal types give
\* no entry; the result is empty when the weekly report is empty or no goal
\* is set.  Goal hours 8 against an average of 7.5 gives unmet, -0.5.
C4_CheckGoals ==
    ret.op = "check_goals" =>
       LET data == coach[ret.sid]
           report == WeeklyReport(data, ret.at)
           goals == data.goals
       IN  /\ ret.outcome = "ok"
           /\ (report = EmptyMap \/ goals = EmptyMap) => ret.val = EmptyMap
           /\ (report # EmptyMap /\ goals # EmptyMap) =>
                 /\ DOMAIN ret.val = {"hours", "quality"} \cap DOMAIN goals
                 /\ \A g \in DOMAIN ret.val :
                       LET avg == IF g = "hours" THEN report.avg_hours
                                  ELSE report.avg_quality
                           diff == avg - goals[g]
                       IN  /\ IsRounded(ret.val[g].difference, diff, 100)
                           /\ ret.val[g].status \in {"met", "unmet"}
                           /\ ret.val[g].status = "met" <=> diff >= 0
                 /\ ("hours" \in DOMAIN goals /\ goals["hours"] = 8000
                        /\ report.avg_hours = 7500) =>
                       ret.val["hours"] = [status |-> "unmet", difference |-> -500]

\* C4 witness: goals for hours, quality and bedtime are set, the week
\* averages 7.5 hours against a goal of 8, and check_goals answered for
\* hours and quality only
C4_Witness ==
    /\ ret.op = "check_goals"
    /\ DOMAIN coach[1].goals = {"hours", "quality", "bedtime"}
    /\ DOMAIN ret.val = {"hours", "quality"}
    /\ ret.val["hours"] = [status |-> "unmet", difference |-> -500]

\* C9 as stated: a weekly report that follows a weekly report of the same
\* session, with no write between the two, returns the same result.
C9_ReportTwice ==
    [][(/\ ret.op = "get_weekly_report"
        /\ ret'.op = "get_weekly_report"
        /\ ret'.sid = ret.sid
        /\ GetWeeklyReport(ret'.sid)) =>
          ret'.val = ret.val
      ]_vars

\* C9 amended: a weekly report that follows a weekly report of the same
\* session, with no write between the two, returns the same result whenever
\* the same entries lie in the 7-day window at the two clock reads; when an
\* entry turns 7 days old between the two reads the results can differ.
C9_ReportTwiceSameWindow ==
    [][(/\ ret.op = "get_weekly_report"
        /\ ret'.op = "get_weekly_report"
        /\ ret'.sid = ret.sid
        /\ GetWeeklyReport(ret'.sid)
        /\ WindowOf(coach[ret.sid].sleep_logs, ret.at)
              = WindowOf(coach[ret.sid].sleep_logs, ret'.at)) =>
          ret'.val = ret.val
      ]_vars

\* C9 witness: a report was asked for again a day after the first one, over
\* a log with one entry inside the window and one outside
C9_Witness ==
    /\ ret.op = "get_weekly_report"
    /\ ret.at = 8
    /\ ret.val # EmptyMap
    /\ Len(coach[1].sleep_logs) = 3
    /\ Len(WindowOf(coach[1].sleep_logs, 8)) = 1
    /\ WindowOf(coach[1].sleep_logs, 7) = WindowOf(coach[1].sleep_logs, 8)

\* C8: the weekly report and the weekly summary are the empty mapping, and
\* no fault, whenever no entry lies in the trailing 7-day window: on an
\* empty log, and on a log whose entries are all too old.
C8_EmptyReports ==
    /\ (ret.op = "get_weekly_report"
           /\ WindowOf(coach[ret.sid].sleep_logs, ret.at) = <<>>) =>
          ret.outcome = "ok" /\ ret.val = EmptyMap
    /\ (ret.op = "get_weekly_summary"
           /\ WindowOf(planner[ret.sid].exercise_logs, ret.at) = <<>>) =>
          ret.outcome = "ok" /\ ret.val = EmptyMap

\* C8 witness: both logs hold entries, none of them inside the window, and
\* the weekly summary came back empty
C8_Witness ==
    /\ ret.op = "get_weekly_summary"
    /\ ret.val = EmptyMap
    /\ planner[1].exercise_logs # <<>>
    /\ coach[1].sleep_logs # <<>>
    /\ WindowOf(coach[1].sleep_logs, ret.at) = <<>>
    /\ \E i \in 1..Len(planner[1].exercise_logs) :
          planner[1].exercise_logs[i].date = ret.at - 7

RECURSIVE SumFun(_, _)
SumFun(f, S) ==
    IF S = {} THEN 0
    ELSE LET x == CHOOSE y \in S : TRUE IN f[x] + SumFun(f, S \ {x})

CountIn(logs, P(_)) == Cardinality({i \in 1..Len(logs) : P(logs[i].duration_hours)})

\* the counts of the four buckets, the first one open at 0 or not
BucketCounts(logs, positive) ==
    [k \in IntervalNames |->
        CASE k = "0-2 hours" ->
                CountIn(logs, LAMBDA d : (positive => 0 < d) /\ d <= 2000)
          [] k = "2-4 hours" -> CountIn(logs, LAMBDA d : 2000 < d /\ d <= 4000)
          [] k = "4-6 hours" -> CountIn(logs, LAMBDA d : 4000 < d /\ d <= 6000)
          [] k = "6+ hours" -> CountIn(logs, LAMBDA d : 6000 < d)]

ExampleLogs ==
    [i \in 1..5 |-> [date |-> 0, activity_type |-> <<"O", "t", "h", "e", "r">>,
                     duration_hours |-> <<1000, 2000, 3000, 5000, 7000>>[i],
                     notes |-> ""]]

C10_WeeklySummary ==
    ret.op = "get_weekly_summary" =>
       LET w == WindowOf(planner[ret.sid].exercise_logs, ret.at)
       IN  w # <<>> =>
              /\ ret.val # EmptyMap
              /\ ret.val.sessions = Len(w)
              /\ IsRounded(ret.val.total_hours, SumSeq(Durations(w)), 10)
              /\ DOMAIN ret.val.activity_breakdown \subseteq TitleNames
              /\ \A a \in TitleNames :
                    Cardinality({i \in 1..Len(w) : w[i].activity_type = a})
                       = IF a \in DOMAIN ret.val.activity_breakdown
                         THEN ret.val.activity_breakdown[a] ELSE 0
              /\ SumFun(ret.val.activity_breakdown, DOMAIN ret.val.activity_breakdown)
                    = ret.val.sessions

\* C10 witness: three entries, two of them in the window and of one type
C10_Witness ==
    /\ ret.op = "get_weekly_summary"
    /\ Len(planner[1].exercise_logs) = 3
    /\ ret.val # EmptyMap
    /\ ret.val.sessions = 2
    /\ ret.val.total_hours = 12240
    /\ ret.val.activity_breakdown = [a \in {<<"R", "u", "n", "n", "i", "n", "g">>} |-> 2]

\* C6: on every advice path a failure of the text-generation call is caught
\* and comes back as a warning text: the caller always receives displayable
\* text and never a raised fault.
C6_AdviceNeverRaises ==
    ret.op \in AdviceOps =>
       /\ ret.outcome = "ok"
       /\ ret.val.kind \in {"text", "warning"}

\* the index of part x in text t, 0 when t does not contain it
IndexOf(t, x) ==
    IF \E i \in 1..Len(t) : t[i] = x
    THEN CHOOSE i \in 1..Len(t) : t[i] = x /\ \A j \in 1..(i - 1) : t[j] # x
    ELSE 0

\* the parts of a text that describe some issue of the table
IssueParts ==
    UNION { {SLEEP_ISSUES[k].description}
               \cup {SLEEP_ISSUES[k].recommendations[i] :
                        i \in 1..Len(SLEEP_ISSUES[k].recommendations)} :
            k \in DOMAIN SLEEP_ISSUES }

\* C11: the prompt that get_ai_coaching composes never fails and is never
\* empty, for any issue key.  For a key outside the sleep-issue table its
\* advice block is the fallback marker and holds no description and no
\* recommendation of any issue; for a key of the table it holds that
\* issue's description followed by its recommendations, all of them, in
\* the table's order, and not the marker.
C11_StructuredPrompt ==
    ret.op = "get_ai_coaching" =>
       LET k == ret.args[2]
           p == ret.val.request
           a == p.advice
       IN  /\ ret.outcome = "ok"
           /\ p.role # "" /\ a # <<>> /\ p.question = ret.args[1]
           /\ k \notin DOMAIN SLEEP_ISSUES =>
                 /\ IndexOf(a, NoAdviceMarker) > 0
                 /\ \A i \in 1..Len(a) : a[i] \notin IssueParts
           /\ k \in DOMAIN SLEEP_ISSUES =>
                 LET info == SLEEP_ISSUES[k]
                     d == IndexOf(a, info.description)
                     r == info.recommendations
                 IN  /\ IndexOf(a, NoAdviceMarker) = 0
                     /\ d > 0
                     /\ \A i \in 1..Len(r) : IndexOf(a, r[i]) > d
                     /\ \A i, j \in 1..Len(r) :
                           i < j => IndexOf(a, r[i]) < IndexOf(a, r[j])
                     /\ \A i \in 1..Len(a) :
                           a[i] \in IssueParts =>
                              a[i] = info.description
                                 \/ \E j \in 1..Len(r) : a[i] = r[j]

\* C11 witness: the prompt for the unknown key "snoring" was composed over
\* three logged nights, while the text service was failing
C11_Witness ==
    /\ ret.op = "get_ai_coaching"
    /\ ret.args[2] = "snoring"
    /\ ret.val.kind = "warning"
    /\ Len(ret.val.request.context) = 3
    /\ ret.val.request.advice = <<NoAdviceMarker>>

\* the entries of a log dated after t - 7 days and not after t
InWindow(logs, t) == SelectSeq(logs, LAMBDA e : e.date > t - 7 /\ e.date <= t)

\* C12: the weekly report and the weekly summary aggregate exactly the
\* entries dated after (now - 7 days) and not after now: they are empty
\* when there is no such entry, and otherwise the averages, the
\* consistency score, the session count and the total are those of these
\* entries alone.  An entry dated exactly 7 days before the call is left
\* out.
C12_ExclusiveWindow ==
    /\ ret.op = "get_weekly_report" =>
          LET w == InWindow(coach[ret.sid].sleep_logs, ret.at)
          IN  /\ (w = <<>>) = (ret.val = EmptyMap)
              /\ w # <<>> =>
                    /\ IsRounded(ret.val.avg_hours * Len(w), SumSeq(Hours(w)), 100 * Len(w))
                    /\ ret.val.avg_quality = IntOf(SumSeq(Quality(w)), Len(w))
                    /\ FracEq(ret.val.consistency_score, CalculateConsistency(w))
    /\ ret.op = "get_weekly_summary" =>
          LET w == InWindow(planner[ret.sid].exercise_logs, ret.at)
          IN  /\ (w = <<>>) = (ret.val = EmptyMap)
              /\ w # <<>> =>
                    /\ ret.val.sessions = Len(w)
                    /\ IsRounded(ret.val.total_hours, SumSeq(Durations(w)), 10)

\* C12 witness: a report at day 8 over a log with a night dated day 1,
\* exactly 7 days old, of 7 hours, and a night dated day 8 of 8 hours: the
\* average is 8 hours
C12_Witness ==
    /\ ret.op = "get_weekly_report" /\ ret.at = 8
    /\ Len(coach[1].sleep_logs) = 2
    /\ coach[1].sleep_logs[1].date = 1 /\ coach[1].sleep_logs[1].hours = 7000
    /\ coach[1].sleep_logs[2].date = 8 /\ coach[1].sleep_logs[2].hours = 8000
    /\ ret.val # EmptyMap
    /\ ret.val.avg_hours = 8000

\* list a is the beginning of list b
IsPrefix(a, b) == Len(a) <= Len(b) /\ \A i \in 1..Len(a) : a[i] = b[i]

\* the entries of a log are in the order of their dates
Chronological(logs) == \A i, j \in 1..Len(logs) : i < j => logs[i].date <= logs[j].date

\* the persisted entries of the user: what a load of the file gives
PersistedSleep(d) == SleepLoadData(d["sleep"]).sleep_logs

PersistedExercise(d) == ExerciseLoadData(d["exercise"]).exercise_logs

\* C13: every log_sleep, log_exercise and set_goal leaves the entries that
\* were persisted before it unchanged and in place, as the beginning of
\* the persisted entries after it, and the persisted entries are in the
\* order of their dates.
C13_AppendOnly ==
    [][ret'.op \in {"log_sleep", "log_exercise", "set_goal"} =>
          /\ IsPrefix(PersistedSleep(disk), PersistedSleep(disk'))
          /\ IsPrefix(PersistedExercise(disk), PersistedExercise(disk'))
          /\ Chronological(PersistedSleep(disk'))
          /\ Chronological(PersistedExercise(disk'))
      ]_vars

\* C14: with two sessions holding the user's documents, a write stores the
\* whole in-memory document of the writing session: after a log_sleep, a
\* set_goal or a log_exercise that succeeded, the stored document is the
\* in-memory document of the session that made this last write, whatever
\* the other session had stored before, with nothing merged in.
C14_LastWriteWins ==
    /\ (ret.op \in {"log_sleep", "set_goal"} /\ ret.outcome = "ok") =>
          /\ disk["sleep"] = JsonDump(coach[ret.sid])
          /\ SleepLoadData(disk["sleep"]) = coach[ret.sid]
    /\ (ret.op = "log_exercise" /\ ret.outcome = "ok") =>
          /\ disk["exercise"] = JsonDump(planner[ret.sid])
          /\ ExerciseLoadData(disk["exercise"]) = planner[ret.sid]

\* C14 witness: session 1 holds two nights and a goal, all of which it
\* stored; session 2, which never loaded them, logged one night last, and
\* the stored document is that of session 2: one night and no goal
C14_Witness ==
    /\ ret.op = "log_sleep" /\ ret.sid = 2 /\ ret.outcome = "ok"
    /\ Len(coach[1].sleep_logs) = 2
    /\ coach[1].goals # EmptyMap
    /\ Len(coach[2].sleep_logs) = 1
    /\ disk["sleep"].st = "valid"
    /\ disk["sleep"].doc = coach[2]
    /\ disk["sleep"].doc.goals = EmptyMap

\* C15: a log_sleep, log_exercise or set_goal whose write faults raises the
\* fault and leaves the session's in-memory documents as they were before
\* the call, so that a document that agreed with the stored one before the
\* call still agrees with it afterwards.
C15_FaultNoEffect ==
    [][(ret'.op \in {"log_sleep", "log_exercise", "set_goal"}
           /\ ret'.outcome = "raised"
           /\ \E o \in SaveOutcomes \ {"ok"} :
                 \/ LogSleep(ret'.sid, ret'.args, o)
                 \/ SetGoal(ret'.sid, ret'.args, o)
                 \/ LogExercise(ret'.sid, ret'.args, o)) =>
          /\ coach' = coach
          /\ planner' = planner
          /\ SleepLoadData(disk["sleep"]) = coach[ret'.sid] =>
                SleepLoadData(disk'["sleep"]) = coach'[ret'.sid]
          /\ ExerciseLoadData(disk["exercise"]) = planner[ret'.sid] =>
                ExerciseLoadData(disk'["exercise"]) = planner'[ret'.sid]
      ]_vars

====
